---- MODULE Spec2Model ----
(***************************************************************************)
(* Model of src/src/brick/Brick.ts: the Brick<T> state container.  A Brick *)
(* owns an rxjs BehaviorSubject (the current value and its observers), an  *)
(* action registry, a side-effect registry and an optional devtool         *)
(* wrapper.  Every public method is one action; the events of the last     *)
(* call (installations, observer notifications, devtool sends, side-effect *)
(* invocations) are recorded in call order.                                *)
(***************************************************************************)
EXTENDS Integers, Sequences, FiniteSets, TLC

VARIABLES
    value,          \* this.subject.value
    observers,      \* the subscriptions on this.subject, in subscription order
    actions,        \* this.actions      : name -> reducer
    sideEffects,    \* this.sideEffects  : name -> effect
    devtoolWrapper, \* TRUE when this.devtoolWrapper is an adapter, FALSE when undefined
    nextRef,        \* the next unused object reference of the heap
    installed,      \* every value the subject has held, the initial one first
    events,         \* what happened during the last call, in order
    call,           \* the last call: operation, arguments, state before it, outcome
    firstAction,    \* name -> the reducer of the first registerAction(name, ...) call
    reports,        \* the values of the state transitions sent to the devtool so far
    twin            \* a second Brick, built from the same initial data and given the
                    \* same calls, whose devtool wrapper is absent iff this one's is present

vars == <<value, observers, actions, sideEffects, devtoolWrapper, nextRef,
          installed, events, call, firstAction, reports, twin>>

----------------------------------------------------------------------------
(* Bounds of the model *)

MaxInstalled   == 3   \* Spec: values held over a Brick's life, the initial one included
MaxObservers   == 1   \* Spec: subscriptions on the subject
MaxStreamed    == 4   \* StreamSpec: values held, the initial one included
MaxSubscribers == 2   \* StreamSpec: subscriptions on the subject
MaxCalled      == 3   \* ReentrantSpec: values held before a call that installs one
MaxReactors    == 2   \* ReentrantSpec: subscriptions on the subject
MaxFramed      == 2   \* FrameSpec: values ever held by the subject
MaxWatchers    == 1   \* FrameSpec: subscriptions on the subject
MaxTried       == 3   \* ThrowSpec: values ever held by the subject
MaxBystanders  == 1   \* ThrowSpec: subscriptions on the subject

----------------------------------------------------------------------------
(* JavaScript values.  An object {count: n} lives at a heap reference; the *)
(* other kinds are primitives and carry no reference.                      *)

Obj(r, n) == [kind |-> "object", ref |-> r, n |-> n]
Num(n)    == [kind |-> "number", ref |-> 0, n |-> n]
StrV      == [kind |-> "string", ref |-> 0, n |-> 0]
BoolV     == [kind |-> "boolean", ref |-> 0, n |-> 0]
NullV     == [kind |-> "null", ref |-> 0, n |-> 0]
UndefV    == [kind |-> "undefined", ref |-> 0, n |-> 0]

Names        == {"INC", "Y"}
NoFn         == "none"
Transformers == {"same", "inc"}
Reducers     == {"add", "keep"}
Effects      == {"e1", "e2"}
Payloads     == {Num(3), Num(5)}
Selectors    == {"identity", "count"}
Comparators  == {"default", "deep"}
Primitives   == {Num(5), StrV, BoolV, NullV, UndefV}
LiteralCounts == {0}
InitialData  == {Obj(1, 0), Num(1)}
Reactions    == {"bump", "reset", "dispatch"}
ThrowingFns  == {"boom"}
ThrowingEffects == {"boomE"}

\* does the caller's function (transformer, reducer or effect) throw?
Throws(f) == f \in ThrowingFns \cup ThrowingEffects

\* a === b
StrictEq(a, b) ==
    IF a.kind = "object" /\ b.kind = "object"
    THEN a.ref = b.ref
    ELSE a.kind = b.kind /\ a.n = b.n

\* structural equality of two values
DeepEq(a, b) == a.kind = b.kind /\ a.n = b.n

\* The caller's transformer functions, as passed to setData(f):
\*   same  : s => s
\*   inc   : s => ({count: s.count + 1})   (s => s + 1 on a number)
\* r is the reference a newly created object gets.
Transform(f, s, r) ==
    CASE f = "same"  -> s
      [] f = "inc"   -> IF s.kind = "object" THEN Obj(r, s.n + 1) ELSE Num(s.n + 1)

\* The caller's reducers, as passed to registerAction(name, reducer):
\*   add  : (s, p) => ({count: s.count + p})   ((s, p) => s + p on a number)
\*   keep : (s, p) => s
Reduce(rd, s, p, r) ==
    CASE rd = "add"  -> IF s.kind = "object" THEN Obj(r, s.n + p.n) ELSE Num(s.n + p.n)
      [] rd = "keep" -> s

\* The caller's selectors, as passed to select$(selector)
Select(sel, s) ==
    CASE sel = "identity" -> s
      [] sel = "count"    -> IF s.kind = "object" THEN Num(s.n) ELSE UndefV

\* The caller's comparators, as passed to select$(selector, comparator);
\* "default" is distinctUntilChanged's own (x, y) => x === y
Compare(cmp, a, b) ==
    CASE cmp = "default" -> StrictEq(a, b)
      [] cmp = "deep"    -> DeepEq(a, b)

----------------------------------------------------------------------------
(* Events of a call *)

NextEv(v)         == [t |-> "next", sub |-> 0, label |-> "", v |-> v, tag |-> ""]
NotifyEv(i, v)    == [t |-> "notify", sub |-> i, label |-> "", v |-> v, tag |-> ""]
SendEv(l, v, tag) == [t |-> "send", sub |-> 0, label |-> l, v |-> v, tag |-> tag]
EffectEv(e, p)    == [t |-> "effect", sub |-> 0, label |-> e, v |-> p, tag |-> ""]
ReactEv(i, r)     == [t |-> "react", sub |-> i, label |-> r, v |-> UndefV, tag |-> ""]

\* setData's argument: a function (a transformer, or the closure dispatch
\* builds around a reducer and a payload) or a plain value
FnArg(f)         == [isFn |-> TRUE, fn |-> f, p |-> UndefV, v |-> UndefV]
ClosureArg(rd, p) == [isFn |-> TRUE, fn |-> rd, p |-> p, v |-> UndefV]
ValArg(v)        == [isFn |-> FALSE, fn |-> NoFn, p |-> UndefV, v |-> v]

\* setDataArg instanceof Function
InstanceofFunction(arg) == arg.isFn

\* A variant that tests typeof setDataArg === 'object', which null passes
InstanceofObject_Typeof(arg) == arg.isFn \/ arg.v.kind \in {"object", "null"}

\* setDataArg instanceof Object (for an argument that is no function)
InstanceofObject(arg) == arg.isFn \/ arg.v.kind = "object"

----------------------------------------------------------------------------
(* The Brick a call works on, as one record; events and threw are those of *)
(* the call.                                                               *)

Brick == [value |-> value, observers |-> observers, actions |-> actions,
          sideEffects |-> sideEffects, devtoolWrapper |-> devtoolWrapper,
          nextRef |-> nextRef, installed |-> installed, reports |-> reports,
          events |-> <<>>, threw |-> FALSE]

\* One subscription: the selector and comparator of its pipe ("none" for the
\* raw stream), distinctUntilChanged's hasKey/key, and what it has received.
\* from is the index in installed of the value current when it subscribed.
\* react is what the subscriber's callback does to the Brick ("none": nothing)
\* and fired whether it has done it.
NewObserver(sel, cmp, from) ==
    [sel |-> sel, cmp |-> cmp, hasKey |-> FALSE, key |-> UndefV,
     seen |-> <<>>, from |-> from, react |-> NoFn, fired |-> FALSE]

\* Does the subscription's pipe let v through to the subscriber?
\* map(selector) then distinctUntilChanged(comparator).
Emits(o, v) ==
    IF o.sel = NoFn THEN TRUE
    ELSE IF o.hasKey THEN ~Compare(o.cmp, o.key, Select(o.sel, v)) ELSE TRUE

\* What the subscriber receives when v passes
Emitted(o, v) == IF o.sel = NoFn THEN v ELSE Select(o.sel, v)

\* A variant of the pipe that keeps comparing with the first key it saw
ObserverNext_KeyKept(o, v) ==
    IF o.sel = NoFn THEN [o EXCEPT !.seen = Append(@, v)]
    ELSE IF Emits(o, v)
         THEN [o EXCEPT !.hasKey = TRUE, !.key = IF o.hasKey THEN @ ELSE Select(o.sel, v),
                        !.seen = Append(@, Select(o.sel, v))]
         ELSE [o EXCEPT !.hasKey = TRUE]

\* The subscription after the subject pushed v into it
ObserverNext(o, v) ==
    IF o.sel = NoFn THEN [o EXCEPT !.seen = Append(@, v)]
    ELSE IF Emits(o, v)
         THEN [o EXCEPT !.hasKey = TRUE, !.key = Select(o.sel, v),
                        !.seen = Append(@, Select(o.sel, v))]
         ELSE [o EXCEPT !.hasKey = TRUE]

RECURSIVE SetData(_, _, _), Dispatch(_, _, _), SubjectNext(_, _), NotifyLoop(_, _, _)

\* What a subscriber's callback calls on the Brick when it reacts:
\*   bump     : brick.setData(s => ({count: s.count + 1}))
\*   reset    : brick.setData({count: 0})
\*   dispatch : brick.dispatch("INC", 3)
\* The callback lets the replay of its subscription pass and reacts once, to
\* the first value it is notified of after that.
React(b, r) ==
    CASE r = "bump"     -> SetData(b, FnArg("inc"), "SET_DATA")
      [] r = "reset"    -> SetData([b EXCEPT !.nextRef = @ + 1],
                                   ValArg(Obj(b.nextRef, 0)), "SET_DATA")
      [] r = "dispatch" -> Dispatch(b, "INC", Num(3))

\* Subject.next's loop over the observers, from observer i on: each is
\* pushed v and its callback runs to completion, calls on the Brick
\* included, before the next observer is pushed v.  What a callback throws
\* is caught by its subscriber and reported later from a timer: the error of
\* a call made by the callback never reaches the call that published v.
NotifyLoop(b, v, i) ==
    IF i > Len(b.observers) THEN b
    ELSE LET o == b.observers[i]
             emits == Emits(o, v)
             fires == emits /\ o.react # NoFn /\ ~o.fired
             o1 == [ObserverNext(o, v) EXCEPT !.fired = @ \/ fires]
             b1 == [b EXCEPT !.observers[i] = o1,
                             !.events = @ \o (IF emits THEN <<NotifyEv(i, Emitted(o, v))>>
                                              ELSE <<>>)
                                          \o (IF fires THEN <<ReactEv(i, o.react)>>
                                              ELSE <<>>)]
         IN  NotifyLoop(IF fires THEN [React(b1, o.react) EXCEPT !.threw = b1.threw]
                        ELSE b1, v, i + 1)

\* A variant of the subject that drops a value identical to the one it holds
SubjectNext_SkipsSame(b, v) ==
    IF StrictEq(b.value, v) THEN b
    ELSE NotifyLoop([b EXCEPT !.value = v,
                              !.installed = Append(@, v),
                              !.events = Append(@, NextEv(v))], v, 1)

\* A variant of the subject that pushes v without storing it (a plain Subject)
SubjectNext_NotStored(b, v) ==
    NotifyLoop([b EXCEPT !.installed = Append(@, v),
                         !.events = Append(@, NextEv(v))], v, 1)

\* BehaviorSubject.next(v): store v, then push it to every observer
SubjectNext(b, v) ==
    NotifyLoop([b EXCEPT !.value = v,
                         !.installed = Append(@, v),
                         !.events = Append(@, NextEv(v))], v, 1)

\* A variant of the report without the optional chaining: devtoolWrapper.send
DevtoolSend_NoGuard(b, label, v, tag) ==
    IF b.devtoolWrapper
    THEN [b EXCEPT !.events = Append(@, SendEv(label, v, tag)),
                   !.reports = IF tag = "" THEN Append(@, v) ELSE @]
    ELSE [b EXCEPT !.threw = TRUE]

\* this.devtoolWrapper?.send(label, payload)
DevtoolSend(b, label, v, tag) ==
    IF b.devtoolWrapper
    THEN [b EXCEPT !.events = Append(@, SendEv(label, v, tag)),
                   !.reports = IF tag = "" THEN Append(@, v) ELSE @]
    ELSE b

\* the value a function argument returns; r is the reference a new object gets
FnResult(arg, s, r) ==
    IF arg.fn \in Reducers THEN Reduce(arg.fn, s, arg.p, r) ELSE Transform(arg.fn, s, r)

\* did the function create its result (and so use the reference r)?
Allocates(res, r) == res.kind = "object" /\ res.ref = r

\* A variant of setData that runs the instanceof Object test on the
\* transformer's result too
SetData_ObjectResultOnly(b, arg, action) ==
    IF InstanceofFunction(arg)
    THEN LET newState == FnResult(arg, b.value, b.nextRef)
             b1 == [b EXCEPT !.nextRef = IF Allocates(newState, @) THEN @ + 1 ELSE @]
         IN  IF newState.kind = "object"
             THEN DevtoolSend(SubjectNext(b1, newState), action, newState, "")
             ELSE b
    ELSE IF InstanceofObject(arg)
         THEN SubjectNext(DevtoolSend(b, action, arg.v, ""), arg.v)
         ELSE b

\* A variant of setData that reports only the transitions made by a function
SetData_ObjectNotReported(b, arg, action) ==
    IF InstanceofFunction(arg)
    THEN IF Throws(arg.fn) THEN [b EXCEPT !.threw = TRUE]
         ELSE LET newState == FnResult(arg, b.value, b.nextRef)
                  b1 == [b EXCEPT !.nextRef = IF Allocates(newState, @) THEN @ + 1 ELSE @]
              IN  DevtoolSend(SubjectNext(b1, newState), action, newState, "")
    ELSE IF InstanceofObject(arg)
         THEN SubjectNext(b, arg.v)
         ELSE b

\* Brick.setData(setDataArg, action); a transformer that throws ends the call
SetData(b, arg, action) ==
    IF InstanceofFunction(arg)
    THEN IF Throws(arg.fn) THEN [b EXCEPT !.threw = TRUE]
         ELSE LET newState == FnResult(arg, b.value, b.nextRef)
                  b1 == [b EXCEPT !.nextRef = IF Allocates(newState, @) THEN @ + 1 ELSE @]
              IN  DevtoolSend(SubjectNext(b1, newState), action, newState, "")
    ELSE IF InstanceofObject(arg)
         THEN SubjectNext(DevtoolSend(b, action, arg.v, ""), arg.v)
         ELSE b

\* A variant of registerAction without the duplicate check
RegisterActionOp_Overwrites(b, name, reducer) == [b EXCEPT !.actions[name] = reducer]

\* Brick.registerAction(name, reducer)
RegisterActionOp(b, name, reducer) ==
    IF b.actions[name] # NoFn
    THEN [b EXCEPT !.threw = TRUE]
    ELSE [b EXCEPT !.actions[name] = reducer]

\* A variant of registerSideEffect without the duplicate check
RegisterSideEffectOp_Overwrites(b, name, effect) == [b EXCEPT !.sideEffects[name] = effect]

\* A variant of registerSideEffect that looks the name up in both registries
RegisterSideEffectOp_SharedNames(b, name, effect) ==
    IF b.sideEffects[name] # NoFn \/ b.actions[name] # NoFn
    THEN [b EXCEPT !.threw = TRUE]
    ELSE [b EXCEPT !.sideEffects[name] = effect]

\* Brick.registerSideEffect(name, effect)
RegisterSideEffectOp(b, name, effect) ==
    IF b.sideEffects[name] # NoFn
    THEN [b EXCEPT !.threw = TRUE]
    ELSE [b EXCEPT !.sideEffects[name] = effect]

\* A variant of dispatch that calls setData without the action's label
Dispatch_DefaultLabel(b, action, payload) ==
    LET reducer == b.actions[action]
        sideEffect == b.sideEffects[action]
        b1 == IF reducer # NoFn
              THEN SetData(b, ClosureArg(reducer, payload), "SET_DATA")
              ELSE b
    IN  IF sideEffect # NoFn
        THEN DevtoolSend([b1 EXCEPT !.events = Append(@, EffectEv(sideEffect, payload))],
                         action, payload, "type:sideEffect")
        ELSE b1

\* A variant of dispatch that reports every dispatched name to the devtool
Dispatch_ReportsAll(b, action, payload) ==
    LET reducer == b.actions[action]
        sideEffect == b.sideEffects[action]
        b1 == IF reducer # NoFn
              THEN SetData(b, ClosureArg(reducer, payload), action)
              ELSE b
        b2 == IF sideEffect # NoFn
              THEN [b1 EXCEPT !.events = Append(@, EffectEv(sideEffect, payload))]
              ELSE b1
    IN  DevtoolSend(b2, action, payload, "type:sideEffect")

\* A variant of dispatch that runs the side effect before the action
Dispatch_EffectFirst(b, action, payload) ==
    LET reducer == b.actions[action]
        sideEffect == b.sideEffects[action]
        b1 == IF sideEffect # NoFn
              THEN DevtoolSend([b EXCEPT !.events = Append(@, EffectEv(sideEffect, payload))],
                               action, payload, "type:sideEffect")
              ELSE b
    IN  IF reducer # NoFn
        THEN SetData(b1, ClosureArg(reducer, payload), action)
        ELSE b1

\* A variant of dispatch that runs the side effect only when no action is
\* registered under the name (else if)
Dispatch_EffectUnlessAction(b, action, payload) ==
    LET reducer == b.actions[action]
        sideEffect == b.sideEffects[action]
    IN  IF reducer # NoFn
        THEN SetData(b, ClosureArg(reducer, payload), action)
        ELSE IF sideEffect # NoFn
             THEN DevtoolSend([b EXCEPT !.events = Append(@, EffectEv(sideEffect, payload))],
                              action, payload, "type:sideEffect")
             ELSE b

\* A variant of dispatch that catches the reducer's error and goes on
Dispatch_SwallowsReducerError(b, action, payload) ==
    LET reducer == b.actions[action]
        sideEffect == b.sideEffects[action]
        b1 == IF reducer # NoFn /\ ~Throws(reducer)
              THEN SetData(b, ClosureArg(reducer, payload), action)
              ELSE b
        b2 == [b1 EXCEPT !.events = Append(@, EffectEv(sideEffect, payload))]
    IN  IF sideEffect # NoFn
        THEN IF Throws(sideEffect) THEN [b2 EXCEPT !.threw = TRUE]
             ELSE DevtoolSend(b2, action, payload, "type:sideEffect")
        ELSE b1

\* A variant of dispatch that reports the side effect before invoking it
Dispatch_ReportsBeforeEffect(b, action, payload) ==
    LET reducer == b.actions[action]
        sideEffect == b.sideEffects[action]
        b1 == IF reducer # NoFn
              THEN SetData(b, ClosureArg(reducer, payload), action)
              ELSE b
        b2 == DevtoolSend(b1, action, payload, "type:sideEffect")
        b3 == [b2 EXCEPT !.events = Append(@, EffectEv(sideEffect, payload))]
    IN  IF b1.threw THEN b1
        ELSE IF sideEffect # NoFn
             THEN IF Throws(sideEffect) THEN [b3 EXCEPT !.threw = TRUE]
                  ELSE b3
             ELSE b1

\* A variant of dispatch that calls setData for every name, with the identity
\* when no action is registered
Dispatch_AlwaysSetsData(b, action, payload) ==
    LET reducer == b.actions[action]
        sideEffect == b.sideEffects[action]
        b1 == IF reducer # NoFn
              THEN SetData(b, ClosureArg(reducer, payload), action)
              ELSE SetData(b, FnArg("same"), action)
        b2 == [b1 EXCEPT !.events = Append(@, EffectEv(sideEffect, payload))]
    IN  IF b1.threw THEN b1
        ELSE IF sideEffect # NoFn
             THEN IF Throws(sideEffect) THEN [b2 EXCEPT !.threw = TRUE]
                  ELSE DevtoolSend(b2, action, payload, "type:sideEffect")
             ELSE b1

\* Brick.dispatch(action, payload); a reducer or an effect that throws ends
\* the call where it throws
Dispatch(b, action, payload) ==
    LET reducer == b.actions[action]
        sideEffect == b.sideEffects[action]
        b1 == IF reducer # NoFn
              THEN SetData(b, ClosureArg(reducer, payload), action)
              ELSE b
        b2 == [b1 EXCEPT !.events = Append(@, EffectEv(sideEffect, payload))]
    IN  IF b1.threw THEN b1
        ELSE IF sideEffect # NoFn
             THEN IF Throws(sideEffect) THEN [b2 EXCEPT !.threw = TRUE]
                  ELSE DevtoolSend(b2, action, payload, "type:sideEffect")
             ELSE b1

\* get snapshot(): reads this.subject.value
SnapshotOp(b) == b

\* A variant of subscribe on a plain Subject, which replays nothing
SubscribeOp_NoReplay(b, sel, cmp) ==
    [b EXCEPT !.observers = Append(@, NewObserver(sel, cmp, Len(b.installed)))]

\* Observable.subscribe on a stream of the Brick: the BehaviorSubject pushes
\* its current value into the new subscription at once.
SubscribeOp(b, sel, cmp) ==
    LET o == NewObserver(sel, cmp, Len(b.installed))
        i == Len(b.observers) + 1
    IN  [b EXCEPT !.observers = Append(@, ObserverNext(o, b.value)),
                  !.events = Append(@, NotifyEv(i, Emitted(o, b.value)))]

\* asObservable().subscribe(callback) with a callback that reacts with r
SubscribeReactorOp(b, r) ==
    LET o == [NewObserver(NoFn, NoFn, Len(b.installed)) EXCEPT !.react = r]
        i == Len(b.observers) + 1
    IN  [b EXCEPT !.observers = Append(@, ObserverNext(o, b.value)),
                  !.events = Append(@, NotifyEv(i, b.value))]

----------------------------------------------------------------------------
(* The calls *)

NoArg == ValArg(UndefV)

\* The record of a call: what was called with what, and the state before it
Call(op, name, arg, sel, cmp) ==
    [op |-> op, name |-> name, arg |-> arg, sel |-> sel, cmp |-> cmp, react |-> NoFn,
     pre |-> value, preRef |-> nextRef, preActions |-> actions,
     preSideEffects |-> sideEffects, preObservers |-> Len(observers)]

\* Is the plain value of the call an object literal the caller has just created?
IsLiteral(c) == ~c.arg.isFn /\ c.arg.v.kind = "object" /\ c.arg.v.ref = c.preRef

\* The call c made on the Brick b
Replay(b, c) ==
    CASE c.op = "setData" ->
            IF IsLiteral(c)
            THEN SetData([b EXCEPT !.nextRef = @ + 1],
                         ValArg(Obj(b.nextRef, c.arg.v.n)), c.name)
            ELSE SetData(b, c.arg, c.name)
      [] c.op = "dispatch" -> Dispatch(b, c.name, c.arg.v)
      [] c.op = "registerAction" -> RegisterActionOp(b, c.name, c.arg.fn)
      [] c.op = "registerSideEffect" -> RegisterSideEffectOp(b, c.name, c.arg.fn)
      [] c.op = "snapshot" -> SnapshotOp(b)
      [] c.op \in {"asObservable", "select$"} ->
            IF c.react # NoFn THEN SubscribeReactorOp(b, c.react)
            ELSE SubscribeOp(b, c.sel, c.cmp)

\* The Brick after the call, and the call's outcome
Install(b, c) ==
    /\ value' = b.value
    /\ observers' = b.observers
    /\ actions' = b.actions
    /\ sideEffects' = b.sideEffects
    /\ nextRef' = b.nextRef
    /\ installed' = b.installed
    /\ events' = b.events
    /\ reports' = b.reports
    /\ twin' = Replay([twin EXCEPT !.events = <<>>, !.threw = FALSE], c)
    /\ call' = [op |-> c.op, name |-> c.name, arg |-> c.arg, sel |-> c.sel,
                cmp |-> c.cmp, react |-> c.react, threw |-> b.threw,
                pre |-> c.pre, preRef |-> c.preRef,
                preActions |-> c.preActions, preSideEffects |-> c.preSideEffects,
                preObservers |-> c.preObservers]
    /\ firstAction' = IF c.op = "registerAction" /\ firstAction[c.name] = NoFn
                      THEN [firstAction EXCEPT ![c.name] = c.arg.fn]
                      ELSE firstAction
    /\ UNCHANGED devtoolWrapper

\* new Brick(initialData)
Init ==
    /\ value \in InitialData
    /\ observers = <<>>
    /\ actions = [n \in Names |-> NoFn]
    /\ sideEffects = [n \in Names |-> NoFn]
    /\ devtoolWrapper \in BOOLEAN
    /\ nextRef = 2
    /\ installed = <<value>>
    /\ events = <<>>
    /\ firstAction = [n \in Names |-> NoFn]
    /\ reports = <<>>
    /\ twin = [Brick EXCEPT !.devtoolWrapper = ~devtoolWrapper]
    /\ call = [op |-> "new", name |-> "", arg |-> ValArg(value), sel |-> NoFn,
               cmp |-> NoFn, react |-> NoFn, threw |-> FALSE, pre |-> value, preRef |-> 2,
               preActions |-> [n \in Names |-> NoFn],
               preSideEffects |-> [n \in Names |-> NoFn], preObservers |-> 0]

\* setData(f) with a transformer function; max bounds the values ever held
SetDataFunction(max) ==
    /\ Len(installed) < max
    /\ \E f \in Transformers :
          Install(SetData(Brick, FnArg(f), "SET_DATA"),
                  Call("setData", "SET_DATA", FnArg(f), NoFn, NoFn))

\* setData({count: n}) with a new object literal
SetDataLiteral(max) ==
    /\ Len(installed) < max
    /\ \E n \in LiteralCounts :
          Install(SetData([Brick EXCEPT !.nextRef = @ + 1],
                          ValArg(Obj(nextRef, n)), "SET_DATA"),
                  Call("setData", "SET_DATA", ValArg(Obj(nextRef, n)), NoFn, NoFn))

\* setData(brick.snapshot) with the very object the Brick holds
SetDataCurrent(max) ==
    /\ Len(installed) < max
    /\ value.kind = "object"
    /\ Install(SetData(Brick, ValArg(value), "SET_DATA"),
               Call("setData", "SET_DATA", ValArg(value), NoFn, NoFn))

\* setData(v) with a primitive
SetDataPrimitive ==
    \E v \in Primitives :
        Install(SetData(Brick, ValArg(v), "SET_DATA"),
                Call("setData", "SET_DATA", ValArg(v), NoFn, NoFn))

\* setData(f) with a transformer that throws
SetDataThrowing ==
    \E f \in ThrowingFns :
        Install(SetData(Brick, FnArg(f), "SET_DATA"),
                Call("setData", "SET_DATA", FnArg(f), NoFn, NoFn))

\* registerAction(name, reducer)
RegisterAction(reducers) ==
    \E name \in Names, rd \in reducers :
        Install(RegisterActionOp(Brick, name, rd),
                Call("registerAction", name, FnArg(rd), NoFn, NoFn))

\* registerSideEffect(name, effect)
RegisterSideEffect(effects) ==
    \E name \in Names, e \in effects :
        Install(RegisterSideEffectOp(Brick, name, e),
                Call("registerSideEffect", name, FnArg(e), NoFn, NoFn))

\* dispatch(name, payload)
DispatchCall(max) ==
    \E name \in Names, p \in Payloads :
        /\ actions[name] # NoFn => Len(installed) < max
        /\ Install(Dispatch(Brick, name, p),
                   Call("dispatch", name, ValArg(p), NoFn, NoFn))

\* asObservable().subscribe(...)
AsObservable(max) ==
    /\ Len(observers) < max
    /\ Install(SubscribeOp(Brick, NoFn, NoFn), Call("asObservable", "", NoArg, NoFn, NoFn))

\* select$().subscribe(...)
SelectRaw(max) ==
    /\ Len(observers) < max
    /\ Install(SubscribeOp(Brick, NoFn, NoFn), Call("select$", "", NoArg, NoFn, NoFn))

\* select$(selector).subscribe(...) and select$(selector, comparator).subscribe(...)
SelectPipe(max) ==
    /\ Len(observers) < max
    /\ \E sel \in Selectors, cmp \in Comparators :
          Install(SubscribeOp(Brick, sel, cmp), Call("select$", "", NoArg, sel, cmp))

\* asObservable().subscribe(callback) with a callback that calls setData or
\* dispatch on the Brick; brick.setData({count: 0}) is for a Brick of objects
SubscribeReactor(max) ==
    /\ Len(observers) < max
    /\ \E r \in Reactions :
          /\ r = "reset" => installed[1].kind = "object"
          /\ Install(SubscribeReactorOp(Brick, r),
                     [Call("asObservable", "", NoArg, NoFn, NoFn) EXCEPT !.react = r])

\* brick.snapshot
Snapshot == Install(SnapshotOp(Brick), Call("snapshot", "", NoArg, NoFn, NoFn))

\* The Brick with its registries: every mutation and dispatch, watched by
\* subscribers of the raw stream
Next ==
    \/ SetDataFunction(MaxInstalled)
    \/ SetDataLiteral(MaxInstalled)
    \/ SetDataCurrent(MaxInstalled)
    \/ SetDataPrimitive
    \/ RegisterAction(Reducers)
    \/ RegisterSideEffect(Effects)
    \/ DispatchCall(MaxInstalled)
    \/ AsObservable(MaxObservers)

Spec == Init /\ [][Next]_vars

\* The Brick as a stream: values installed by setData, watched through
\* asObservable() and select$()
StreamNext ==
    \/ SetDataFunction(MaxStreamed)
    \/ SetDataLiteral(MaxStreamed)
    \/ SetDataCurrent(MaxStreamed)
    \/ SetDataPrimitive
    \/ AsObservable(MaxSubscribers)
    \/ SelectRaw(MaxSubscribers)
    \/ SelectPipe(MaxSubscribers)

StreamSpec == Init /\ [][StreamNext]_vars

\* The Brick watched by subscribers whose callbacks call setData and
\* dispatch on it, with a reducer that may throw
ReentrantNext ==
    \/ SetDataFunction(MaxCalled)
    \/ SetDataLiteral(MaxCalled)
    \/ RegisterAction({"add"} \cup ThrowingFns)
    \/ DispatchCall(MaxCalled)
    \/ AsObservable(MaxReactors)
    \/ SubscribeReactor(MaxReactors)

ReentrantSpec == Init /\ [][ReentrantNext]_vars

\* The Brick with reducers, transformers and side effects that may throw
ThrowNext ==
    \/ SetDataFunction(MaxTried)
    \/ SetDataThrowing
    \/ RegisterAction({"add"} \cup ThrowingFns)
    \/ RegisterSideEffect({"e1"} \cup ThrowingEffects)
    \/ DispatchCall(MaxTried)
    \/ AsObservable(MaxBystanders)

ThrowSpec == Init /\ [][ThrowNext]_vars

\* Every public operation of the Brick
FrameNext ==
    \/ SetDataFunction(MaxFramed)
    \/ SetDataLiteral(MaxFramed)
    \/ SetDataPrimitive
    \/ RegisterAction(Reducers)
    \/ RegisterSideEffect(Effects)
    \/ DispatchCall(MaxFramed)
    \/ AsObservable(MaxWatchers)
    \/ SelectRaw(MaxWatchers)
    \/ SelectPipe(MaxWatchers)
    \/ Snapshot

FrameSpec == Init /\ [][FrameNext]_vars

----------------------------------------------------------------------------
(* Reading the events of the last call *)

EventsOf(t) == {k \in 1..Len(events) : events[k].t = t}

\* the notifications subscriber i received during the call
Notifs(i) == {k \in 1..Len(events) : events[k].t = "notify" /\ events[k].sub = i}

\* the devtool reports of the call: state transitions, and side effects
TransitionSends == {k \in EventsOf("send") : events[k].tag = ""}
SideEffectSends == {k \in EventsOf("send") : events[k].tag = "type:sideEffect"}

IsSetData  == call.op = "setData"
IsDispatch == call.op = "dispatch"

\* the registries as the last call found them
PreReducer == call.preActions[call.name]
PreEffect  == call.preSideEffects[call.name]

----------------------------------------------------------------------------
(* C1: after setData(v2) with a plain value v2 of any shape, snapshot is   *)
(* v2 and every subscriber that subscribed before the call has observed    *)
(* exactly one notification during the call, carrying v2.                  *)
C1_SetDataInstallsAnyValue ==
    (IsSetData /\ ~call.arg.isFn) =>
        /\ value = call.arg.v
        /\ \A i \in 1..call.preObservers :
              /\ Cardinality(Notifs(i)) = 1
              /\ \A k \in Notifs(i) : events[k].v = call.arg.v

C3_DispatchAppliesReducer ==
    (IsDispatch /\ PreReducer # NoFn) =>
        /\ value = Reduce(PreReducer, call.pre, call.arg.v, call.preRef)
        /\ Len(installed) >= 2
        /\ installed[Len(installed) - 1] = call.pre
        /\ installed[Len(installed)] = value
        /\ devtoolWrapper =>
              /\ Cardinality(TransitionSends) = 1
              /\ \A k \in TransitionSends : events[k] = SendEv(call.name, value, "")

\* from {count:0}, INC with 5 then INC with 3 gives {count:5} then {count:8}
C3_Witness ==
    /\ IsDispatch /\ call.name = "INC" /\ call.arg.v = Num(3)
    /\ devtoolWrapper
    /\ installed = <<Obj(1, 0), Obj(2, 5), Obj(3, 8)>>

(* C4: dispatch of a name that is in neither registry is a no-op: no       *)
(* error, snapshot and both registries unchanged, no subscriber notified,  *)
(* nothing sent to the devtool adapter.                                    *)
C4_DispatchUnknownIsNoOp ==
    (IsDispatch /\ PreReducer = NoFn /\ PreEffect = NoFn) =>
        /\ ~call.threw
        /\ value = call.pre
        /\ actions = call.preActions
        /\ sideEffects = call.preSideEffects
        /\ nextRef = call.preRef
        /\ events = <<>>

C4_Witness ==
    /\ IsDispatch /\ call.name = "Y"
    /\ actions["Y"] = NoFn /\ sideEffects["Y"] = NoFn
    /\ actions["INC"] # NoFn /\ sideEffects["INC"] # NoFn
    /\ devtoolWrapper /\ Len(observers) = 1

(* C5: registerAction(X, r2) when X is already registered fails with the   *)
(* duplicate-name error and leaves the registry unchanged; every dispatch  *)
(* of X applies the reducer X was first registered with.                   *)
C5_DuplicateActionRejected ==
    /\ (call.op = "registerAction" /\ PreReducer # NoFn) =>
          /\ call.threw
          /\ actions = call.preActions
    /\ (IsDispatch /\ firstAction[call.name] # NoFn) =>
          value = Reduce(firstAction[call.name], call.pre, call.arg.v, call.preRef)

C5_Witness ==
    /\ call.op = "registerAction" /\ call.threw
    /\ call.arg.fn = "keep"
    /\ actions[call.name] = "add" /\ firstAction[call.name] = "add"

(* C6: the two registries are independent namespaces: registerSideEffect   *)
(* fails exactly when the name is already a side effect, registerAction    *)
(* exactly when the name is already an action, and one dispatch of a name  *)
(* registered in both runs the reducer and the effect.                     *)
C6_IndependentNamespaces ==
    /\ call.op = "registerSideEffect" =>
          /\ call.threw <=> PreEffect # NoFn
          /\ ~call.threw => sideEffects[call.name] = call.arg.fn
    /\ call.op = "registerAction" =>
          /\ call.threw <=> PreReducer # NoFn
          /\ ~call.threw => actions[call.name] = call.arg.fn
    /\ (IsDispatch /\ PreReducer # NoFn /\ PreEffect # NoFn) =>
          /\ \E k \in EventsOf("next") :
                events[k].v = Reduce(PreReducer, call.pre, call.arg.v, call.preRef)
          /\ \E k \in EventsOf("effect") : events[k] = EffectEv(PreEffect, call.arg.v)

C6_Witness ==
    /\ IsDispatch /\ call.name = "Y"
    /\ actions["Y"] = "add" /\ sideEffects["Y"] = "e2"
    /\ EventsOf("next") # {} /\ EventsOf("effect") # {}

(* C7: in one dispatch of a name registered in both registries, the state  *)
(* transition (value installed and published) and its devtool report come  *)
(* before the side-effect callback, which comes before the side effect's   *)
(* own devtool report.                                                     *)
C7_ActionBeforeSideEffect ==
    (IsDispatch /\ PreReducer # NoFn /\ PreEffect # NoFn) =>
        /\ Cardinality(EventsOf("next")) = 1
        /\ Cardinality(EventsOf("effect")) = 1
        /\ \A e \in EventsOf("effect") :
              /\ \A k \in EventsOf("next") \cup EventsOf("notify") : k < e
              /\ \A k \in TransitionSends : k < e
              /\ \A k \in SideEffectSends : e < k
        /\ devtoolWrapper =>
              /\ Cardinality(TransitionSends) = 1
              /\ Cardinality(SideEffectSends) = 1

C7_Witness ==
    /\ IsDispatch /\ PreReducer # NoFn /\ PreEffect # NoFn
    /\ devtoolWrapper /\ call.preObservers = 1
    /\ Len(events) = 5

\* The values the Brick has held since observer o subscribed, through o's
\* selector
Selected(o) ==
    [k \in 1..(Len(installed) - o.from + 1) |-> Select(o.sel, installed[o.from + k - 1])]

RECURSIVE Collapse(_, _)
\* s with every run of consecutive elements equal under cmp cut down to the
\* run's first element
Collapse(cmp, s) ==
    IF Len(s) <= 1 THEN s
    ELSE LET front == Collapse(cmp, SubSeq(s, 1, Len(s) - 1))
         IN  IF Compare(cmp, s[Len(s) - 1], s[Len(s)]) THEN front
             ELSE Append(front, s[Len(s)])

PipeObservers == {i \in 1..Len(observers) : observers[i].sel # NoFn}
RawObservers  == {i \in 1..Len(observers) : observers[i].sel = NoFn}

(* C8: a subscriber of select$(selector, comparator) receives the selected *)
(* values from the current one on, with each run of consecutive values     *)
(* equal under the comparator (=== by default) collapsed to one: never two *)
(* consecutive emissions that the comparator finds equal.                  *)
C8_SelectCollapsesRuns ==
    \A i \in PipeObservers :
        LET o == observers[i] IN
        /\ o.seen = Collapse(o.cmp, Selected(o))
        /\ \A j \in 1..(Len(o.seen) - 1) : ~Compare(o.cmp, o.seen[j], o.seen[j + 1])

\* the values 1, 1, 2, 2 seen through the identity selector as 1, 2
C8_Witness ==
    /\ installed = <<Num(1), Num(1), Num(2), Num(2)>>
    /\ \E i \in PipeObservers :
          /\ observers[i].sel = "identity" /\ observers[i].cmp = "default"
          /\ observers[i].from = 1
          /\ observers[i].seen = <<Num(1), Num(2)>>

(* C9: every setData call that installs a value (its argument a function   *)
(* or an object) publishes exactly one notification, carrying the new      *)
(* value, to each subscriber of the raw stream, also when the new value is *)
(* the very object held before or deep-equal to it.                        *)
C9_EveryInstallPublished ==
    (IsSetData /\ (call.arg.isFn \/ call.arg.v.kind = "object")) =>
        /\ Cardinality(EventsOf("next")) = 1
        /\ \A i \in RawObservers :
              i <= call.preObservers =>
                 /\ Cardinality(Notifs(i)) = 1
                 /\ \A k \in Notifs(i) : events[k].v = value
                 /\ observers[i].seen[Len(observers[i].seen)] = value

\* the object already held is set again and both raw subscribers are told
C9_Witness ==
    /\ IsSetData /\ ~call.arg.isFn
    /\ call.arg.v.kind = "object" /\ call.arg.v.ref = call.pre.ref
    /\ RawObservers = {1, 2}
    /\ Notifs(1) # {} /\ Notifs(2) # {}

(* C10: setData with an argument that is neither a function nor a non-null *)
(* object is a silent no-op: no error, snapshot unchanged, nothing         *)
(* published, nothing sent to the devtool adapter.                         *)
C10_SetDataPrimitiveIsNoOp ==
    (IsSetData /\ ~call.arg.isFn /\ call.arg.v.kind # "object") =>
        /\ ~call.threw
        /\ value = call.pre
        /\ installed[Len(installed)] = call.pre
        /\ events = <<>>

C10_Witness ==
    /\ IsSetData /\ call.arg = ValArg(NullV)
    /\ devtoolWrapper /\ Len(observers) = 1

\* the devtool reports of the call that are no state transitions
TaggedSends == {k \in EventsOf("send") : events[k].tag # ""}

(* C11: when a side effect e is registered under name, dispatch(name, p)   *)
(* invokes e exactly once with p and then sends exactly one devtool report *)
(* labeled name whose payload is the tagged record                         *)
(* { kind: "sideEffect", payload: p }, with or without an action under     *)
(* name.                                                                   *)
C11_SideEffectReportedAsKind ==
    (IsDispatch /\ PreEffect # NoFn) =>
        /\ Cardinality(EventsOf("effect")) = 1
        /\ \A e \in EventsOf("effect") : events[e] = EffectEv(PreEffect, call.arg.v)
        /\ devtoolWrapper =>
              /\ Cardinality(TaggedSends) = 1
              /\ \A k \in TaggedSends :
                    /\ events[k] = SendEv(call.name, call.arg.v, "kind:sideEffect")
                    /\ \A e \in EventsOf("effect") : e < k

(* C11, amended: dispatch(name, p) of a name with a side effect e invokes  *)
(* e exactly once with p and then, when the devtool adapter is present,    *)
(* sends exactly one report labeled name whose payload is the tagged       *)
(* record { type: "sideEffect", payload: p }, with or without an action    *)
(* registered under name.                                                  *)
C11_SideEffectReportedAsType ==
    (IsDispatch /\ PreEffect # NoFn) =>
        /\ Cardinality(EventsOf("effect")) = 1
        /\ \A e \in EventsOf("effect") : events[e] = EffectEv(PreEffect, call.arg.v)
        /\ devtoolWrapper =>
              /\ Cardinality(TaggedSends) = 1
              /\ \A k \in TaggedSends :
                    /\ events[k] = SendEv(call.name, call.arg.v, "type:sideEffect")
                    /\ \A e \in EventsOf("effect") : e < k

\* a side effect and an action under one name, and a side effect alone
C11_Witness ==
    /\ IsDispatch /\ call.name = "Y" /\ devtoolWrapper
    /\ PreEffect = "e1" /\ PreReducer = "add"
    /\ events[Len(events)] = SendEv("Y", call.arg.v, "type:sideEffect")
    /\ actions["INC"] = NoFn /\ sideEffects["INC"] # NoFn

IsSubscribe == call.op \in {"asObservable", "select$"}

First(S) == CHOOSE k \in S : \A j \in S : k <= j
Last(S)  == CHOOSE k \in S : \A j \in S : j <= k

\* does the setData call install a value, and which
Installs == IsSetData /\ (call.arg.isFn \/ call.arg.v.kind = "object")
ValueSet == IF call.arg.isFn THEN Transform(call.arg.fn, call.pre, call.preRef)
            ELSE call.arg.v

(* C13: a caller that calls setData(x) and reads snapshot right after the  *)
(* call returns sees the value that call set, whatever the subscribers,    *)
(* those whose callback calls setData or dispatch on the Brick included.   *)
C13_SnapshotIsValueSet == Installs => value = ValueSet

(* C13, amended: subscribers are notified synchronously inside the call,   *)
(* which returns normally.  The caller sees the value the call set when    *)
(* no call made by a subscriber's callback during the call installed a     *)
(* value: no callback called setData or dispatch, or the calls made        *)
(* installed nothing (a name without action, a reducer that throws).  When *)
(* such a call installed a value, snapshot is the value installed last     *)
(* during the call.                                                        *)
C13_SnapshotIsLastInstalled ==
    Installs =>
        /\ ~call.threw
        /\ EventsOf("next") # {}
        /\ events[First(EventsOf("next"))].v = ValueSet
        /\ value = events[Last(EventsOf("next"))].v
        /\ value = installed[Len(installed)]
        /\ EventsOf("react") = {} => value = ValueSet
        /\ Cardinality(EventsOf("next")) = 1 => value = ValueSet
        /\ \A i \in 1..call.preObservers : Notifs(i) # {}

\* the subscriber's callback has set another value inside the call
C13_Witness ==
    /\ Installs /\ EventsOf("react") # {}
    /\ Cardinality(EventsOf("next")) = 2
    /\ value # ValueSet
    /\ value = events[Last(EventsOf("next"))].v

(* C14: both registries only grow: a name once present stays present and  *)
(* bound to the function it was first registered with, and only a         *)
(* successful registerAction / registerSideEffect changes a registry,     *)
(* by binding the name it was given to the function it was given.         *)
C14_RegistriesOnlyGrow ==
    [][ /\ \A n \in Names :
             /\ actions[n] # NoFn => actions'[n] = actions[n]
             /\ sideEffects[n] # NoFn => sideEffects'[n] = sideEffects[n]
        /\ actions' # actions =>
             /\ call'.op = "registerAction" /\ ~call'.threw
             /\ actions' = [actions EXCEPT ![call'.name] = call'.arg.fn]
             /\ sideEffects' = sideEffects
        /\ sideEffects' # sideEffects =>
             /\ call'.op = "registerSideEffect" /\ ~call'.threw
             /\ sideEffects' = [sideEffects EXCEPT ![call'.name] = call'.arg.fn]
             /\ actions' = actions
      ]_vars

\* a side effect registered again under a taken name, with another function,
\* both registries holding entries
C14_Witness ==
    /\ call.op = "registerSideEffect" /\ call.threw
    /\ sideEffects[call.name] # NoFn
    /\ sideEffects[call.name] # call.arg.fn
    /\ sideEffects = call.preSideEffects
    /\ \E n \in Names : actions[n] # NoFn

\* what the callers of a Brick can see of a call: everything but the reports
IsVisible(e) == e.t # "send"
Visible(evs) == SelectSeq(evs, IsVisible)

(* C15: the behaviour visible to the callers does not depend on the devtool *)
(* adapter: after the same calls, the Brick built with the adapter and the  *)
(* one built without it hold the same value, subscribers that have seen the *)
(* same values and the same registries, the last call raised an error on    *)
(* both or on neither and went through the same installs, notifications and *)
(* side-effect invocations; the Brick without adapter sends no report.      *)
C15_AdapterIndependent ==
    /\ twin.devtoolWrapper = ~devtoolWrapper
    /\ twin.value = value
    /\ twin.installed = installed
    /\ twin.observers = observers
    /\ twin.actions = actions
    /\ twin.sideEffects = sideEffects
    /\ twin.threw = call.threw
    /\ Visible(twin.events) = Visible(events)
    /\ ~devtoolWrapper => Visible(events) = events /\ reports = <<>>
    /\ devtoolWrapper => Visible(twin.events) = twin.events /\ twin.reports = <<>>

\* a dispatch that ran an action and a side effect before a subscriber, on
\* the Brick without adapter while the Brick with adapter sent two reports
C15_Witness ==
    /\ ~devtoolWrapper
    /\ IsDispatch /\ PreReducer # NoFn /\ PreEffect # NoFn
    /\ Len(observers) >= 1
    /\ value # call.pre
    /\ ~call.threw
    /\ Len(twin.events) = Len(events) + 2

(* C16: in every setData call that installs a value, plain value or        *)
(* transformer function alike, the value is first installed and published  *)
(* to the subscribers and only then reported to the devtool adapter, once, *)
(* with the call's label and the new value: no install and no notification *)
(* of the call comes after the report.                                     *)
C16_PublishedBeforeReported ==
    (Installs /\ devtoolWrapper) =>
        /\ Cardinality(TransitionSends) = 1
        /\ \A k \in TransitionSends :
              /\ events[k].label = call.name
              /\ events[k].v = value
              /\ \A j \in EventsOf("next") \cup EventsOf("notify") : j < k

\* the calls said to leave the value alone, subscribing apart
LeavesValue ==
    \/ call.op \in {"registerAction", "registerSideEffect", "snapshot"}
    \/ IsDispatch /\ PreReducer = NoFn

(* C17: the current value changes only inside setData or inside dispatch  *)
(* of a name that has a registered action: registerAction and             *)
(* registerSideEffect (successful or failing), reading snapshot and       *)
(* dispatch of a name without action leave snapshot unchanged and publish *)
(* no notification; asObservable and select$ leave snapshot unchanged,    *)
(* publish nothing, and a subscription made on them notifies no           *)
(* subscriber but the new one.                                            *)
C17_ValueChangesOnlyInSetDataOrAction ==
    /\ LeavesValue =>
          /\ value = call.pre
          /\ EventsOf("next") = {}
          /\ EventsOf("notify") = {}
    /\ IsSubscribe =>
          /\ value = call.pre
          /\ EventsOf("next") = {}
          /\ \A i \in 1..call.preObservers : Notifs(i) = {}
    /\ value # call.pre =>
          \/ IsSetData
          \/ IsDispatch /\ PreReducer # NoFn

\* a dispatch that ran only a side effect, before a subscriber, on a Brick
\* whose value has changed before
C17_Witness ==
    /\ IsDispatch /\ PreReducer = NoFn /\ PreEffect # NoFn
    /\ EventsOf("effect") # {}
    /\ Len(observers) >= 1
    /\ Len(installed) >= 2
    /\ value = call.pre

\* the call ran a transformer, or a reducer, that throws
TransformerThrew == IsSetData /\ call.arg.isFn /\ Throws(call.arg.fn)
ReducerThrew     == IsDispatch /\ PreReducer # NoFn /\ Throws(PreReducer)

(* C18: if the reducer, or a transformer passed to setData, raises an     *)
(* error, the error reaches the caller and the call has no effect at all: *)
(* snapshot and registries unchanged, no value installed, no subscriber   *)
(* notified, no devtool report sent, and in dispatch a side effect        *)
(* registered under the same name is not invoked.                         *)
C18_ReducerErrorLeavesNoTrace ==
    (TransformerThrew \/ ReducerThrew) =>
        /\ call.threw
        /\ value = call.pre
        /\ nextRef = call.preRef
        /\ actions = call.preActions
        /\ sideEffects = call.preSideEffects
        /\ events = <<>>

\* a reducer throws in a dispatch of a name that also has a side effect,
\* before a subscriber and the devtool adapter
C18_Witness ==
    /\ ReducerThrew /\ PreEffect # NoFn
    /\ call.threw
    /\ devtoolWrapper
    /\ Len(observers) >= 1
    /\ Len(installed) >= 2

\* the call ran a reducer that returned and then a side effect that throws
EffectThrew ==
    /\ IsDispatch
    /\ PreReducer # NoFn /\ ~Throws(PreReducer)
    /\ PreEffect # NoFn /\ Throws(PreEffect)

(* C19: if in a dispatch of a name with an action and a side effect the   *)
(* side effect raises an error, the error reaches the caller while the    *)
(* action's transition stays applied: snapshot holds the reducer's        *)
(* result, every subscriber was notified of it, the action's devtool      *)
(* report was sent, and the side effect's own report is never sent.       *)
C19_EffectErrorKeepsTransition ==
    EffectThrew =>
        /\ call.threw
        /\ value = Reduce(PreReducer, call.pre, call.arg.v, call.preRef)
        /\ installed[Len(installed)] = value
        /\ Cardinality(EventsOf("next")) = 1
        /\ \A i \in 1..Len(observers) :
              /\ Cardinality(Notifs(i)) = 1
              /\ \A k \in Notifs(i) : events[k].v = value
        /\ Cardinality(EventsOf("effect")) = 1
        /\ TaggedSends = {}
        /\ devtoolWrapper =>
              /\ Cardinality(TransitionSends) = 1
              /\ \A k \in TransitionSends : events[k] = SendEv(call.name, value, "")

\* the side effect throws after the reducer's value went to a subscriber
\* and to the devtool adapter
C19_Witness ==
    /\ EffectThrew
    /\ call.threw
    /\ devtoolWrapper
    /\ Len(observers) >= 1
    /\ value # call.pre
    /\ TransitionSends # {}

\* how many times v occurs in the sequence q
Count(q, v) == Cardinality({k \in 1..Len(q) : q[k] = v})

\* the values notified to the first subscriber after its initial replay,
\* when it subscribed right after construction
FromConstruction == Len(observers) >= 1 /\ observers[1].from = 1
Notified == Tail(observers[1].seen)
NoCallback == \A i \in 1..Len(observers) : ~observers[i].fired

(* C20: for any sequence of setData and dispatch calls, those made by      *)
(* subscribers from inside their notification callback included, the       *)
(* state-transition reports received by the devtool adapter carry the same *)
(* values in the same order as the values notified to a subscriber that    *)
(* subscribed right after construction, its initial replay left out, and   *)
(* the last such report carries the final snapshot.                        *)
C20_ReportsMirrorNotifications ==
    (devtoolWrapper /\ FromConstruction) =>
        /\ reports = Notified
        /\ reports # <<>> => reports[Len(reports)] = value

(* C20, amended: the state-transition reports carry the same values, as    *)
(* many times each, as the values notified to that subscriber; they come   *)
(* in the same order, the last one carrying the final snapshot, as long as *)
(* no subscriber has called setData or dispatch from inside its            *)
(* notification callback.                                                  *)
C20_ReportsMirrorSequentialCalls ==
    (devtoolWrapper /\ FromConstruction) =>
        /\ Len(reports) = Len(Notified)
        /\ \A k \in 1..Len(reports) : Count(reports, reports[k]) = Count(Notified, reports[k])
        /\ NoCallback =>
              /\ reports = Notified
              /\ reports # <<>> => reports[Len(reports)] = value

\* two transitions, one by dispatch, reported as the first subscriber saw them
C20_Witness ==
    /\ devtoolWrapper /\ FromConstruction /\ NoCallback
    /\ IsDispatch /\ PreReducer # NoFn
    /\ Len(reports) = 2
    /\ reports[1] # reports[2]
    /\ reports = Notified
    /\ reports[2] = value

====
